---- MODULE Spec2Model ----
(***************************************************************************)
(* MethodGenerator: the convention-parsing, schema-provisioning query      *)
(* engine (core/method_generator.py, AutoDB) and the task-polling          *)
(* scheduler that drives it (core/service_loader.py, services/service1).   *)
(*                                                                         *)
(* A Python str is modelled as a sequence of one-character strings, so     *)
(* that the regular expressions, startswith, endswith, removesuffix and    *)
(* split of the source are computed character by character.                *)
(***************************************************************************)
EXTENDS Integers, Sequences, FiniteSets, TLC

VARIABLES
    db,        \* the sqlite store: table name -> [cols, rows, seq]
    name,      \* the attribute name last looked up on an AutoDB
    method,    \* what __getattr__ returned for it (a method, or AttributeError)
    args,      \* the arguments of the last call
    ret,       \* what the last call raised, changed and returned
    loop,      \* poll_tasks: where the coroutine stands
    units,     \* the process_task coroutines created and not yet finished
    last,      \* the step the engine's caller or the scheduler took last
    registry,  \* the import of service_definitions/registry.py: its loop and TASKS
    conns      \* the AutoDB connections running _ensure_table_and_columns side by side

vars == <<db, name, method, args, ret, loop, units, last, registry, conns>>

engine == <<name, method, args, ret>>

scheduler == <<loop, units, last>>

aside == <<registry, conns>>

\* registry.py is not being imported
NotImported == [discovered |-> <<>>, i |-> 1, TASKS |-> <<>>]

\* no connection is inside _ensure_table_and_columns
NoConns == <<>>

-----------------------------------------------------------------------------
(* bounds *)

\* integers passed as arguments are 0..MaxInt
MaxInt == 3

\* rows a table holds at most
MaxRows == 1

\* length of the column lists handed to _ensure_table_and_columns directly
MaxCols == 2

-----------------------------------------------------------------------------
(* str *)

Max(S) == CHOOSE x \in S : \A y \in S : y <= x

Min(S) == CHOOSE x \in S : \A y \in S : x <= y

\* p occurs in s at index i
At(s, i, p) == i >= 1 /\ i + Len(p) - 1 <= Len(s) /\ SubSeq(s, i, i + Len(p) - 1) = p

startswith(s, p) == At(s, 1, p)

endswith(s, p) == Len(s) >= Len(p) /\ At(s, Len(s) - Len(p) + 1, p)

removesuffix(s, p) == IF Len(p) > 0 /\ endswith(s, p) THEN SubSeq(s, 1, Len(s) - Len(p)) ELSE s

\* s.split(sep): cut at each occurrence of sep, scanning from the left
RECURSIVE split(_, _)
split(s, sep) ==
    LET hits == {i \in 1..Len(s) : At(s, i, sep)}
    IN  IF hits = {} THEN <<s>>
        ELSE LET k == Min(hits)
             IN  <<SubSeq(s, 1, k - 1)>> \o split(SubSeq(s, k + Len(sep), Len(s)), sep)

\* "_".join(parts)
RECURSIVE Join(_)
Join(parts) ==
    IF Len(parts) = 0 THEN <<>>
    ELSE IF Len(parts) = 1 THEN parts[1]
    ELSE parts[1] \o <<"_">> \o Join(Tail(parts))

-----------------------------------------------------------------------------
(* re: the character classes and the patterns of method_generator.py *)

WordChars ==
    {"a","b","c","d","e","f","g","h","i","j","k","l","m","n","o","p","q","r","s",
     "t","u","v","w","x","y","z","0","1","2","3","4","5","6","7","8","9","_"}

\* \w+
IsWord(s) == Len(s) >= 1 /\ \A i \in 1..Len(s) : s[i] \in WordChars

\* .+
IsAny(s) == Len(s) >= 1 /\ \A i \in 1..Len(s) : s[i] # "\n"

s_get == <<"g","e","t">>
s_set == <<"s","e","t">>
s_update == <<"u","p","d","a","t","e">>
s_delete == <<"d","e","l","e","t","e">>
s_with_ == <<"_","w","i","t","h","_">>
s_by_ == <<"_","b","y","_">>
s_and_ == <<"_","a","n","d","_">>
s_status == <<"s","t","a","t","u","s">>
s__status == <<"_","s","t","a","t","u","s">>
s_s == <<"s">>
s_id == <<"i","d">>
s_image == <<"i","m","a","g","e">>
s_images == <<"i","m","a","g","e","s">>
s_url == <<"u","r","l">>
s_user_id == <<"u","s","e","r","_","i","d">>
s_text == <<"t","e","x","t">>
s_videos == <<"v","i","d","e","o","s">>
s_pending == <<"p","e","n","d","i","n","g">>

\* (get|set|update|delete): the alternatives in the order the pattern tries them
OpAlternation == <<s_get, s_set, s_update, s_delete>>

\* the alternatives of (get|set|update|delete)_ that match at the start of s
OpMatches(s) == {k \in 1..Len(OpAlternation) : startswith(s, OpAlternation[k] \o <<"_">>)}

\* (\w+)_(\w+)$ from index a: the end indexes of the first group
UnderSplits(s, a) ==
    {j \in a..(Len(s) - 2) :
        /\ IsWord(SubSeq(s, a, j))
        /\ s[j + 1] = "_"
        /\ IsWord(SubSeq(s, j + 2, Len(s)))}

\* _(.+)_with_(\w+)_(\w+)$ after a prefix of length p: the end indexes of (.+)
WithSplits(s, p) ==
    {i \in (p + 1)..Len(s) :
        /\ IsAny(SubSeq(s, p + 1, i))
        /\ At(s, i + 1, s_with_)
        /\ UnderSplits(s, i + 1 + Len(s_with_)) # {}}

\* (\w+)_by_(\w+)$ after a prefix of length p: the end indexes of the first group
BySplits(s, p) ==
    {i \in (p + 1)..Len(s) :
        /\ IsWord(SubSeq(s, p + 1, i))
        /\ At(s, i + 1, s_by_)
        /\ IsWord(SubSeq(s, i + 1 + Len(s_by_), Len(s)))}

\* (\w+)_by_ after a prefix of length p, not anchored at the end
ByPrefixSplits(s, p) ==
    {i \in (p + 1)..Len(s) :
        /\ IsWord(SubSeq(s, p + 1, i))
        /\ At(s, i + 1, s_by_)}

\* (\w+)_and_(\w+)$ from index a: the end indexes of the first group
AndSplits(s, a) ==
    {j \in a..Len(s) :
        /\ IsWord(SubSeq(s, a, j))
        /\ At(s, j + 1, s_and_)
        /\ IsWord(SubSeq(s, j + 1 + Len(s_and_), Len(s)))}

\* (\w+)_by_(\w+)_and_(\w+)$ after a prefix of length p: the end indexes of the first group
ByAndSplits(s, p) ==
    {i \in (p + 1)..Len(s) :
        /\ IsWord(SubSeq(s, p + 1, i))
        /\ At(s, i + 1, s_by_)
        /\ AndSplits(s, i + 1 + Len(s_by_)) # {}}

-----------------------------------------------------------------------------
(* AutoDB: the parsers behind __getattr__ *)

OPERATION_KEYWORDS == {s_get, s_set, s_update, s_delete}

STATUS_KEYWORDS ==
    {<<"u","p","l","o","a","d","e","d">>, <<"p","e","n","d","i","n","g">>,
     <<"p","r","o","c","e","s","s","i","n","g">>, <<"w","a","i","t","i","n","g">>,
     <<"d","o","n","e">>, <<"e","r","r","o","r">>}

\* if not table.endswith("s"): table += "s"
plural(table) == IF endswith(table, s_s) THEN table ELSE table \o s_s

\* what a parser returns: None, or the closure `method` with the values it captured.
\*   columns: the columns of the SELECT list or of the SET list ("*" is <<>>)
\*   where:   the columns of the WHERE clause, in the order of their parameters
\*   status:  the status literal bound to WHERE status = ? at call time, if any
\*   ensure:  the list handed to _ensure_table_and_columns
Closure(kind, table, columns, where, status, ensure) ==
    [kind |-> kind, table |-> table, columns |-> columns, where |-> where,
     status |-> status, ensure |-> ensure]

None == Closure("None", <<>>, <<>>, <<>>, <<>>, <<>>)

AttributeError == Closure("AttributeError", <<>>, <<>>, <<>>, <<>>, <<>>)

_guess_table_from_method(s) ==
    IF OpMatches(s) = {} THEN <<"!">>
    ELSE LET p == Len(OpAlternation[Min(OpMatches(s))]) + 1
         IN  IF ByPrefixSplits(s, p) # {}
             THEN plural(SubSeq(s, p + 1, Max(ByPrefixSplits(s, p))))
             ELSE IF IsWord(SubSeq(s, p + 1, Len(s)))
             THEN plural(SubSeq(s, p + 1, Len(s)))
             ELSE <<"!">>

_parse_get_with_status_table(s) ==
    IF OpMatches(s) = {} THEN None
    ELSE LET op == OpAlternation[Min(OpMatches(s))]
             p  == Len(op) + 1
         IN  IF WithSplits(s, p) = {} THEN None
             ELSE LET i == Max(WithSplits(s, p))
                      a == i + 1 + Len(s_with_)
                      j == Max(UnderSplits(s, a))
                      columns_part == SubSeq(s, p + 1, i)
                      status == SubSeq(s, a, j)
                      table == SubSeq(s, j + 2, Len(s))
                      columns == split(columns_part, s_and_)
                  IN  IF op \notin OPERATION_KEYWORDS \/ status \notin STATUS_KEYWORDS
                      THEN None
                      ELSE Closure("get_with_status", table, columns, <<s_status>>,
                                   status, columns \o <<s_status>>)

_parse_get_by_column(s) ==
    IF OpMatches(s) = {} THEN None
    ELSE LET op == OpAlternation[Min(OpMatches(s))]
             p  == Len(op) + 1
         IN  IF BySplits(s, p) = {} THEN None
             ELSE LET i == Max(BySplits(s, p))
                      column == SubSeq(s, p + 1, i)
                      by_column == SubSeq(s, i + 1 + Len(s_by_), Len(s))
                      table == _guess_table_from_method(s)
                  IN  IF op \notin OPERATION_KEYWORDS THEN None
                      ELSE IF table = <<"!">> THEN AttributeError
                      ELSE Closure("get_by_column", table, <<column>>, <<by_column>>,
                                   <<>>, <<column, by_column>>)

_parse_get_simple_table(s) ==
    IF OpMatches(s) = {} THEN None
    ELSE LET op == OpAlternation[Min(OpMatches(s))]
             p  == Len(op) + 1
             table == SubSeq(s, p + 1, Len(s))
         IN  IF ~IsWord(table) THEN None
             ELSE IF op \notin OPERATION_KEYWORDS THEN None
             ELSE Closure("get_simple_table", table, <<>>, <<>>, <<>>, <<>>)

_parse_set_with_status_table(s) ==
    LET p == Len(s_set) + 1
    IN  IF ~startswith(s, s_set \o <<"_">>) \/ WithSplits(s, p) = {} THEN None
        ELSE LET i == Max(WithSplits(s, p))
                 a == i + 1 + Len(s_with_)
                 j == Max(UnderSplits(s, a))
                 columns_part == SubSeq(s, p + 1, i)
                 status == SubSeq(s, a, j)
                 table == SubSeq(s, j + 2, Len(s))
                 columns == split(columns_part, s_and_)
             IN  Closure("set_with_status", table, columns, <<s_status>>,
                         status, columns \o <<s_status>>)

_parse_set_by_two_columns(s) ==
    LET p == Len(s_set) + 1
    IN  IF ~startswith(s, s_set \o <<"_">>) \/ ByAndSplits(s, p) = {} THEN None
        ELSE LET i == Max(ByAndSplits(s, p))
                 a == i + 1 + Len(s_by_)
                 j == Max(AndSplits(s, a))
                 column == SubSeq(s, p + 1, i)
                 filter1 == SubSeq(s, a, j)
                 filter2 == SubSeq(s, j + 1 + Len(s_and_), Len(s))
                 table == _guess_table_from_method(s)
             IN  IF table = <<"!">> THEN AttributeError
                 ELSE Closure("set_by_two_columns", table, <<column>>,
                              <<filter1, filter2>>, <<>>, <<column, filter1, filter2>>)

_parse_set_by_column(s) ==
    LET p == Len(s_set) + 1
    IN  IF ~startswith(s, s_set \o <<"_">>) \/ BySplits(s, p) = {} THEN None
        ELSE LET i == Max(BySplits(s, p))
                 column0 == SubSeq(s, p + 1, i)
                 by_column0 == SubSeq(s, i + 1 + Len(s_by_), Len(s))
                 table0 == _guess_table_from_method(s)
                 column == removesuffix(column0, s__status)
                 by_column == removesuffix(by_column0, s__status)
                 table == plural(removesuffix(table0, s__status))
                 target == IF endswith(table0, s__status) THEN s_status ELSE column
             IN  IF table0 = <<"!">> THEN AttributeError
                 ELSE Closure("set_by_column", table, <<target>>, <<by_column>>,
                              <<>>, <<column, by_column, s_status>>)

_parse_set_status_method(s) ==
    LET p == Len(s_set) + 1
        e == Len(s) - Len(s__status)
    IN  IF ~(startswith(s, s_set \o <<"_">>) /\ endswith(s, s__status)
             /\ IsWord(SubSeq(s, p + 1, e)))
        THEN None
        ELSE Closure("set_status", plural(SubSeq(s, p + 1, e)), <<s_status>>,
                     <<s_id>>, <<>>, <<s_status>>)

\* for parser in parsers: method = parser(name); if method: return method
RECURSIVE FirstMethod(_)
FirstMethod(results) ==
    IF Len(results) = 0 THEN None
    ELSE IF results[1] # None THEN results[1]
    ELSE FirstMethod(Tail(results))

__getattr__(s) ==
    LET m1 == IF startswith(s, s_set \o <<"_">>)
              THEN FirstMethod(<<_parse_set_status_method(s),
                                 _parse_set_with_status_table(s),
                                 _parse_set_by_two_columns(s),
                                 _parse_set_by_column(s)>>)
              ELSE None
        m2 == IF startswith(s, s_get \o <<"_">>)
              THEN FirstMethod(<<_parse_get_with_status_table(s),
                                 _parse_get_by_column(s),
                                 _parse_get_simple_table(s)>>)
              ELSE None
    IN  IF m1 # None THEN m1
        ELSE IF m2 # None THEN m2
        ELSE AttributeError

-----------------------------------------------------------------------------
(* sqlite: the store, as far as the statements AutoDB issues go.             *)
(* A Python value is a string: a str is itself, the int n is "#n", None is   *)
(* NULL. Every column AutoDB adds is declared TEXT and id is INTEGER, so a   *)
(* value is converted by the column's affinity when stored or compared.      *)

NULL == "<NULL>"

py_int(n) == "#" \o ToString(n)

\* TEXT affinity: an integer becomes its decimal text
TextAffinity(v) ==
    IF \E n \in 0..MaxInt : v = py_int(n)
    THEN ToString(CHOOSE n \in 0..MaxInt : v = py_int(n))
    ELSE v

\* INTEGER affinity: a text that is a decimal integer becomes that integer
IntegerAffinity(v) ==
    IF \E n \in 0..MaxInt : v = ToString(n)
    THEN py_int(CHOOSE n \in 0..MaxInt : v = ToString(n))
    ELSE v

Affinity(column, v) == IF column = s_id THEN IntegerAffinity(v) ELSE TextAffinity(v)

Range(f) == {f[i] : i \in DOMAIN f}

\* SELECT name FROM sqlite_master WHERE type='table' AND name = ?
TableExists(d, table) == table \in DOMAIN d

\* PRAGMA table_info(table): the column names, in declaration order
table_info(d, table) == d[table].cols

\* CREATE TABLE table (id INTEGER PRIMARY KEY AUTOINCREMENT)
_create_table(d, table) ==
    (table :> [cols |-> <<s_id>>, rows |-> <<>>, seq |-> 0]) @@ d

\* ALTER TABLE table ADD COLUMN column TEXT: existing rows read NULL in it
AddColumn(d, table, column) ==
    [d EXCEPT ![table] =
        [cols |-> Append(@.cols, column),
         rows |-> [i \in DOMAIN @.rows |-> (column :> NULL) @@ @.rows[i]],
         seq  |-> @.seq]]

\* column = ? on one row: NULL equals nothing
Equals(row, column, param) ==
    /\ param # NULL
    /\ row[column] # NULL
    /\ row[column] = Affinity(column, param)

\* the indexes of the rows with where[1] = params[1] AND where[2] = params[2] ...
Matching(d, table, where, params) ==
    {i \in DOMAIN d[table].rows :
        \A k \in DOMAIN where : Equals(d[table].rows[i], where[k], params[k])}

\* UPDATE table SET columns[1] = values[1], ... WHERE where = params
RECURSIVE Assign(_, _, _)
Assign(row, columns, values) ==
    IF Len(columns) = 0 THEN row
    ELSE Assign([row EXCEPT ![Head(columns)] = Affinity(Head(columns), Head(values))],
                Tail(columns), Tail(values))

\* a store on which UPDATE changes no row
UpdateNothing(d, table, columns, values, where, params) == d

Update(d, table, columns, values, where, params) ==
    [d EXCEPT ![table].rows =
        [i \in DOMAIN @ |->
            IF i \in Matching(d, table, where, params)
            THEN Assign(@[i], columns, values)
            ELSE @[i]]]

\* the rows of table in d whose column holds the TEXT form of k
RowsWith(d, table, column, k) ==
    IF TableExists(d, table) /\ column \in Range(d[table].cols)
    THEN {j \in DOMAIN d[table].rows : d[table].rows[j][column] = TextAffinity(k)}
    ELSE {}

\* the subsequence of seq at the indexes in S, in order
RECURSIVE Pick(_, _, _)
Pick(seq, S, i) ==
    IF i > Len(seq) THEN <<>>
    ELSE (IF i \in S THEN <<seq[i]>> ELSE <<>>) \o Pick(seq, S, i + 1)

\* SELECT columns FROM table WHERE where = params, each row as dict(row);
\* columns = <<>> is SELECT *
Select(d, table, columns, where, params) ==
    LET hit == Pick(d[table].rows, Matching(d, table, where, params), 1)
    IN  [i \in DOMAIN hit |->
            IF columns = <<>> THEN hit[i]
            ELSE [c \in Range(columns) |-> hit[i][c]]]

\* INSERT INTO table (columns) VALUES (values): AUTOINCREMENT gives the id
Insert(d, table, columns, values) ==
    LET t   == d[table]
        new == [c \in Range(t.cols) |->
                   IF c = s_id THEN py_int(t.seq + 1)
                   ELSE IF \E k \in DOMAIN columns : columns[k] = c
                   THEN Affinity(c, values[CHOOSE k \in DOMAIN columns : columns[k] = c])
                   ELSE NULL]
    IN  [d EXCEPT ![table] = [cols |-> t.cols, rows |-> Append(t.rows, new), seq |-> t.seq + 1]]

-----------------------------------------------------------------------------
(* AutoDB: provisioning *)

\* what a call leaves behind: the store, the exception it raised if any, the
\* number of CREATE TABLE / ADD COLUMN statements it executed, the rows returned
Outcome(d, raised, ddl, rows) == [db |-> d, raised |-> raised, ddl |-> ddl, rows |-> rows]

\* for column in columns: if column not in existing: ALTER TABLE ... ADD COLUMN.
\* `existing` is read once, before the loop; sqlite refuses a column the table
\* already has, and the columns added before that stay (DDL is not rolled back).
RECURSIVE AddMissing(_, _, _, _, _)
AddMissing(d, table, existing, columns, ddl) ==
    IF Len(columns) = 0 THEN Outcome(d, "", ddl, <<>>)
    ELSE IF Head(columns) \in existing
    THEN AddMissing(d, table, existing, Tail(columns), ddl)
    ELSE IF Head(columns) \in Range(table_info(d, table))
    THEN Outcome(d, "OperationalError: duplicate column name", ddl, <<>>)
    ELSE AddMissing(AddColumn(d, table, Head(columns)), table, existing,
                    Tail(columns), ddl + 1)

\* provisioning that never looks at the columns the table has
_ensure_unseen(d, table, columns) ==
    LET d1 == IF TableExists(d, table) THEN d ELSE _create_table(d, table)
        n1 == IF TableExists(d, table) THEN 0 ELSE 1
    IN  AddMissing(d1, table, {}, columns, n1)

_ensure_table_and_columns(d, table, columns) ==
    LET d1 == IF TableExists(d, table) THEN d ELSE _create_table(d, table)
        n1 == IF TableExists(d, table) THEN 0 ELSE 1
    IN  AddMissing(d1, table, Range(table_info(d1, table)), columns, n1)

-----------------------------------------------------------------------------
(* AutoDB: the generated methods *)

\* the str a sequence of characters stands for, as a value bound to a query
RECURSIVE Str(_)
Str(s) == IF Len(s) = 0 THEN "" ELSE Head(s) \o Str(Tail(s))

\* the number of positional arguments the closure takes (*values for
\* set_with_status: any number, checked in the body)
Arity(m) ==
    CASE m.kind = "get_with_status"    -> 0
      [] m.kind = "get_by_column"      -> 1
      [] m.kind = "get_simple_table"   -> 0
      [] m.kind = "set_with_status"    -> Len(m.columns)
      [] m.kind = "set_by_two_columns" -> 3
      [] m.kind = "set_by_column"      -> 2
      [] m.kind = "set_status"         -> 2
      [] OTHER                         -> 0

\* the body of the closure m called with argv on store d
Call(m, argv, d) ==
    LET e == _ensure_table_and_columns(d, m.table, m.ensure)
        \* SET values and WHERE parameters, as the body binds them
        values == CASE m.kind = "set_with_status"    -> argv
                    [] m.kind = "set_by_two_columns" -> <<argv[1]>>
                    [] m.kind = "set_by_column"      -> <<argv[1]>>
                    [] m.kind = "set_status"         -> <<argv[2]>>
                    [] OTHER                         -> <<>>
        params == CASE m.kind = "get_with_status"    -> <<Str(m.status)>>
                    [] m.kind = "get_by_column"      -> <<argv[1]>>
                    [] m.kind = "get_simple_table"   -> <<>>
                    [] m.kind = "set_with_status"    -> <<Str(m.status)>>
                    [] m.kind = "set_by_two_columns" -> <<argv[2], argv[3]>>
                    [] m.kind = "set_by_column"      -> <<argv[2]>>
                    [] m.kind = "set_status"         -> <<argv[1]>>
                    [] OTHER                         -> <<>>
        isGet  == m.kind \in {"get_with_status", "get_by_column", "get_simple_table"}
        d2     == IF isGet THEN e.db
                  ELSE Update(e.db, m.table, m.columns, values, m.where, params)
    IN  IF m.kind = "set_with_status" /\ Len(argv) # Len(m.columns)
        THEN Outcome(d, "ValueError", 0, <<>>)
        ELSE IF e.raised # "" THEN e
        ELSE Outcome(d2, "", e.ddl,
                     Select(d2, m.table, IF isGet THEN m.columns ELSE <<>>, m.where, params))

\* AutoDB.execute("INSERT INTO table (columns) VALUES (?, ...)", values): the
\* table is created if missing, each listed column is added if missing (the
\* set of existing columns is kept up to date here), then the row is inserted
RECURSIVE ExecuteAddColumns(_, _, _, _)
ExecuteAddColumns(d, table, columns, ddl) ==
    IF Len(columns) = 0 THEN Outcome(d, "", ddl, <<>>)
    ELSE IF Head(columns) \in Range(table_info(d, table))
    THEN ExecuteAddColumns(d, table, Tail(columns), ddl)
    ELSE ExecuteAddColumns(AddColumn(d, table, Head(columns)), table, Tail(columns), ddl + 1)

execute_insert(d, table, columns, values) ==
    LET d1 == IF TableExists(d, table) THEN d ELSE _create_table(d, table)
        n1 == IF TableExists(d, table) THEN 0 ELSE 1
        e  == ExecuteAddColumns(d1, table, columns, n1)
    IN  Outcome(Insert(e.db, table, columns, values), "", e.ddl, <<>>)

-----------------------------------------------------------------------------
(* The query engine as its callers drive it: one AutoDB on a fresh database, *)
(* generated methods looked up by name and called, provisioning called       *)
(* directly, rows inserted through execute.                                  *)

n_set_image_by_user_id == Join(<<s_set, s_image, <<"b","y">>, s_user_id>>)
n_get_image_by_user_id == Join(<<s_get, s_image, <<"b","y">>, s_user_id>>)
n_set_image_status_by_user_id == Join(<<s_set, s_image, s_status, <<"b","y">>, s_user_id>>)
n_get_image_status_by_user_id == Join(<<s_get, s_image, s_status, <<"b","y">>, s_user_id>>)
n_get_status_with_pending_images == Join(<<s_get, s_status, <<"w","i","t","h">>, s_pending, s_images>>)
n_get_images == Join(<<s_get, s_images>>)
n_ensure == <<"_","e","n","s","u","r","e">>
n_execute == <<"e","x","e","c","u","t","e">>

\* delete_<table> for the table images
n_delete_images == Join(<<s_delete, s_images>>)

\* set_<column>_with_<status>_<table> whose target column is the filter column
n_set_status_with_pending_images ==
    Join(<<s_set, s_status, <<"w","i","t","h">>, s_pending, s_images>>)

\* the names the callers of this model look up and call
CallNames ==
    {n_set_image_by_user_id, n_get_image_by_user_id,
     n_set_image_status_by_user_id, n_get_image_status_by_user_id,
     n_get_status_with_pending_images, n_get_images}

\* further names callers look up: a delete_ name, and a setter that writes
\* the column it filters by
OtherNames == {n_delete_images, n_set_status_with_pending_images}

\* the values callers pass: a str, an int
ArgValues == {"url123", py_int(2)}

\* the keys callers filter by
ArgKeys == {py_int(1), py_int(2)}

EnsureTables == {s_images}

EnsureColumns == {s_image, s_status}

\* the tuples of length n over S
RECURSIVE Tuples(_, _)
Tuples(S, n) ==
    IF n = 0 THEN {<<>>}
    ELSE {<<x>> \o t : x \in S, t \in Tuples(S, n - 1)}

ArgTuples(m) ==
    CASE Arity(m) = 0 -> {<<>>}
      [] Arity(m) = 1 -> IF m.kind = "set_with_status"
                         THEN {<<v>> : v \in ArgValues}
                         ELSE {<<k>> : k \in ArgKeys}
      [] Arity(m) = 2 -> {<<v, k>> : v \in ArgValues, k \in ArgKeys}
      [] OTHER -> {}

\* getattr(db, n) for each name of CallNames
Resolved == [n \in CallNames \cup OtherNames |-> __getattr__(n)]

NoResult == [raised |-> "", ddl |-> 0, rows |-> <<>>]

Result(o) == [raised |-> o.raised, ddl |-> o.ddl, rows |-> o.rows]

\* what `last` holds after a step
Event(step, task, user) == [step |-> step, task |-> task, user |-> user]

\* no scheduler runs beside the engine's callers
Idle ==
    /\ loop = [pc |-> "off", i |-> 0]
    /\ units = <<>>
    /\ last = Event("", 0, NULL)
    /\ registry = NotImported
    /\ conns = NoConns

InitDB ==
    /\ db = <<>>
    /\ name = <<>>
    /\ method = None
    /\ args = <<>>
    /\ ret = NoResult
    /\ Idle

\* getattr(db, n)(*argv); a name __getattr__ refuses raises AttributeError at
\* the lookup and nothing is called
CallMethod(n, argv) ==
    LET m == Resolved[n]
        o == IF m = AttributeError THEN Outcome(db, "AttributeError", 0, <<>>)
             ELSE Call(m, argv, db)
    IN  /\ m # None
        /\ name' = n
        /\ method' = m
        /\ args' = argv
        /\ db' = o.db
        /\ ret' = Result(o)
        /\ last' = Event("call", 0, NULL)
        /\ UNCHANGED <<loop, units, aside>>

\* db._ensure_table_and_columns(table, columns); `last` tells a call that
\* repeats the call made just before it, when that one returned normally
CallEnsure(table, columns) ==
    LET o == _ensure_table_and_columns(db, table, columns)
        m == Closure("ensure", table, <<>>, <<>>, <<>>, columns)
    IN  /\ name' = n_ensure
        /\ method' = m
        /\ args' = <<>>
        /\ db' = o.db
        /\ ret' = Result(o)
        /\ last' = Event(IF name = n_ensure /\ method = m /\ ret.raised = ""
                         THEN "ensure again" ELSE "ensure", 0, NULL)
        /\ UNCHANGED <<loop, units, aside>>

\* db.execute("INSERT INTO images (user_id, status) VALUES (?, ?)", (k, "pending"))
CallInsert(table, k) ==
    LET o == execute_insert(db, table, <<s_user_id, s_status>>, <<k, "pending">>)
    IN  /\ TableExists(db, table) => Len(db[table].rows) < MaxRows
        /\ name' = n_execute
        /\ method' = Closure("execute", table, <<s_user_id, s_status>>, <<>>, <<>>, <<>>)
        /\ args' = <<k, "pending">>
        /\ db' = o.db
        /\ ret' = Result(o)
        /\ last' = Event("insert", 0, NULL)
        /\ UNCHANGED <<loop, units, aside>>

s_as == <<"a","s">>

\* the select items the callers of execute write, each as its words and
\* symbols: a column, a column with alias (with and without AS), a column
\* qualified by its table
SelectItems ==
    {<<s_status>>, <<s_status, s_as, s_s>>, <<s_status, s_s>>,
     <<s_images, <<".">>, s_status>>}

\* whether sqlite parses "ALTER TABLE t ADD COLUMN {col} TEXT": a column
\* name followed by the words of a type name, none of them a keyword
ColumnDef(col) == \A k \in DOMAIN col : IsWord(col[k]) /\ col[k] # s_as

\* for col in cols: if col not in existing_cols: ALTER TABLE ... ADD COLUMN
\* {col} TEXT; existing_cols.add(col). col is the text of the select item;
\* sqlite refuses the name of a column the table has as soon as it has read
\* the name, before it meets what it cannot parse after it.
RECURSIVE ScanSelect(_, _, _, _, _)
ScanSelect(d, table, existing_cols, cols, ddl) ==
    IF Len(cols) = 0 THEN Outcome(d, "", ddl, <<>>)
    ELSE LET col == Head(cols)
         IN  IF col \in existing_cols
             THEN ScanSelect(d, table, existing_cols, Tail(cols), ddl)
             ELSE IF col[1] \in Range(table_info(d, table))
             THEN Outcome(d, "OperationalError: duplicate column name", ddl, <<>>)
             ELSE IF ~ColumnDef(col)
             THEN Outcome(d, "OperationalError: syntax error", ddl, <<>>)
             ELSE ScanSelect(AddColumn(d, table, col[1]), table,
                             existing_cols \cup {col}, Tail(cols), ddl + 1)

\* AutoDB.execute("SELECT item, ... FROM table"): the table is created if
\* missing, the select items are scanned (not when they are "*" or hold a
\* parenthesis), then the statement runs; `ran` tells whether it was reached.
\* A row comes back keyed by the alias of each item, or by its column name.
execute_select_items(d, table, items) ==
    LET d1 == IF TableExists(d, table) THEN d ELSE _create_table(d, table)
        n1 == IF TableExists(d, table) THEN 0 ELSE 1
        scanned == items # <<>> /\ \A k \in DOMAIN items : <<"(">> \notin Range(items[k])
        e  == IF scanned
              THEN ScanSelect(d1, table, {<<c>> : c \in Range(table_info(d1, table))},
                              items, n1)
              ELSE Outcome(d1, "", n1, <<>>)
        column(item) == IF Len(item) = 3 /\ item[2] = <<".">> THEN item[3] ELSE item[1]
        key(item) == item[Len(item)]
        hit == e.db[table].rows
    IN  IF e.raised # "" THEN e @@ [ran |-> FALSE]
        ELSE IF \E k \in DOMAIN items : column(items[k]) \notin Range(table_info(e.db, table))
        THEN Outcome(e.db, "OperationalError: no such column", e.ddl, <<>>) @@ [ran |-> TRUE]
        ELSE Outcome(e.db, "", e.ddl,
                     [i \in DOMAIN hit |->
                         [c \in {key(items[k]) : k \in DOMAIN items} |->
                             hit[i][column(CHOOSE item \in Range(items) : key(item) = c)]]])
             @@ [ran |-> TRUE]

\* db.execute("SELECT <item> FROM <table>")
CallSelect(table, items) ==
    LET o == execute_select_items(db, table, items)
    IN  /\ name' = n_execute
        /\ method' = Closure("execute", table, items, <<>>, <<>>, <<>>)
        /\ args' = <<>>
        /\ db' = o.db
        /\ ret' = Result(o)
        /\ last' = Event(IF o.ran THEN "select" ELSE "select aborted", 0, NULL)
        /\ UNCHANGED <<loop, units, aside>>

NextDB ==
    \/ \E n \in CallNames : \E argv \in ArgTuples(Resolved[n]) : CallMethod(n, argv)
    \/ \E t \in EnsureTables : \E k \in 0..MaxCols : \E c \in Tuples(EnsureColumns, k) :
          CallEnsure(t, c)
    \/ \E k \in ArgKeys : CallInsert(s_images, k)

SpecDB == InitDB /\ [][NextDB]_vars

\* the same engine with the further names and with SELECT statements passed
\* to execute
NextDBAll ==
    \/ \E n \in CallNames \cup OtherNames : \E argv \in ArgTuples(Resolved[n]) :
          CallMethod(n, argv)
    \/ \E t \in EnsureTables : \E k \in 0..MaxCols : \E c \in Tuples(EnsureColumns, k) :
          CallEnsure(t, c)
    \/ \E k \in ArgKeys : CallInsert(s_images, k)
    \/ \E item \in SelectItems : CallSelect(s_images, <<item>>)

SpecDBAll == InitDB /\ [][NextDBAll]_vars

-----------------------------------------------------------------------------
(* The scheduler: the registry, the Task of services/service1, process_task  *)
(* and poll_tasks of core/service_loader.py on one asyncio event loop, with  *)
(* the intake endpoint and the delivery check as writers of the same store.  *)

\* seeded records the store holds when the core starts, over all polled tables
MaxSeed == 2

\* requests the intake endpoint accepts, over all services
MaxIntake == 1

s_video == <<"v","i","d","e","o">>
s_image_service == <<"i","m","a","g","e","_","s","e","r","v","i","c","e">>
s_video_service == <<"v","i","d","e","o","_","s","e","r","v","i","c","e">>
s_audio_service == <<"a","u","d","i","o","_","s","e","r","v","i","c","e">>
s_requests == <<"r","e","q","u","e","s","t","s">>
s_image_url == <<"i","m","a","g","e","_","u","r","l">>

\* a Task of the shape of ImageTask: its name and the noun its methods are
\* spelled with (get_url_and_user_id_with_pending_<noun>s, ...)
Task(task_name, noun) == [name |-> task_name, noun |-> noun]

\* SERVICE = ImageTask("image_service")
ImageTask == Task(s_image_service, s_image)

\* registry.py registers the SERVICE of every package under services/; beside
\* service1 the model registers a second service of the same shape, so that
\* there is another Task type for a sweep to go on to
VideoTask == Task(s_video_service, s_video)

\* TASKS, in insertion order
TASKS == <<ImageTask, VideoTask>>

\* the attribute names the Task looks up on db
db_fetch_name(t) ==
    Join(<<s_get, s_url, <<"a","n","d">>, s_user_id, <<"w","i","t","h">>, s_pending,
           t.noun \o s_s>>)

set_status_name(t) == Join(<<s_set, t.noun, s_status, <<"b","y">>, s_user_id>>)

save_result_name(t) == Join(<<s_set, t.noun, <<"b","y">>, s_user_id>>)

\* getattr(db, ...) for the three names of each registered Task
Methods ==
    [i \in DOMAIN TASKS |->
        [db_fetch    |-> __getattr__(db_fetch_name(TASKS[i])),
         set_status  |-> __getattr__(set_status_name(TASKS[i])),
         save_result |-> __getattr__(save_result_name(TASKS[i]))]]

\* return db.get_url_and_user_id_with_pending_images()
db_fetch(i, d) == Call(Methods[i].db_fetch, <<>>, d)

\* if not payload: return; db.set_image_status_by_user_id(status, payload[0]["user_id"])
set_status(i, d, payload, status) ==
    IF payload = <<>> THEN Outcome(d, "", 0, <<>>)
    ELSE Call(Methods[i].set_status, <<status, payload[1][s_user_id]>>, d)

\* if not payload: return; db.set_image_by_user_id(result, payload[0]["user_id"])
save_result(i, d, payload, result) ==
    IF payload = <<>> THEN Outcome(d, "", 0, <<>>)
    ELSE Call(Methods[i].save_result, <<result, payload[1][s_user_id]>>, d)

\* what awaiting task.process(payload) comes to: send_to_generator answered
\* "image generated" (process returns "data"), answered anything else (process
\* returns None), or raised
ProcessOutcomes == {"data", NULL, "raise"}

\* an except branch that only logs
except_logs(i, d, payload) == Outcome(d, "", 0, <<>>)

\* except Exception as e: task.set_status(payload, "error")
except_handler(i, d, payload) == set_status(i, d, payload, "error")

\* the table a Task polls
PolledTable(i) == Methods[i].db_fetch.table

\* table = f"{service}_requests"
RequestsTable(service) == service \o <<"_">> \o s_requests

\* service in TASKS
Registered(service) == \E i \in DOMAIN TASKS : TASKS[i].name = service

\* AutoDB.execute("SELECT columns FROM table"): the table is created if
\* missing, each selected column is added if missing, every row is returned
execute_select(d, table, columns) ==
    LET d1 == IF TableExists(d, table) THEN d ELSE _create_table(d, table)
        n1 == IF TableExists(d, table) THEN 0 ELSE 1
        e  == ExecuteAddColumns(d1, table, columns, n1)
    IN  Outcome(e.db, "", e.ddl, Select(e.db, table, columns, <<>>, <<>>))

\* the users records belong to
Users == {py_int(1), py_int(2)}

\* the users requests are posted for: handle_service stores the user id it is
\* given and does nothing else with it
Requesters == {py_int(1)}

\* the records the store may hold in the polled tables when the core starts:
\* left there by earlier runs and by whatever feeds the tables the Tasks poll
SeedStatuses == {"pending", "waiting"}

SeedRecords == {<<i, u, st>> : i \in DOMAIN TASKS, u \in Users, st \in SeedStatuses}

Seeds == UNION {Tuples(SeedRecords, n) : n \in 0..MaxSeed}

RECURSIVE Seeded(_, _)
Seeded(d, seeds) ==
    IF Len(seeds) = 0 THEN d
    ELSE Seeded(execute_insert(d, PolledTable(Head(seeds)[1]),
                               <<s_user_id, s_text, s_status>>,
                               <<Head(seeds)[2], "", Head(seeds)[3]>>).db,
                Tail(seeds))

\* seq without its u-th element
Remove(seq, u) == SubSeq(seq, 1, u - 1) \o SubSeq(seq, u + 1, Len(seq))

\* the number of rows of the tables in T
RECURSIVE RowCount(_, _)
RowCount(d, T) ==
    IF T = {} THEN 0
    ELSE LET t == CHOOSE t \in T : TRUE
         IN  (IF TableExists(d, t) THEN Len(d[t].rows) ELSE 0) + RowCount(d, T \ {t})

\* the services requests are posted for; audio_service is not registered
ServiceNames == {s_image_service, s_video_service, s_audio_service}

\* BotScheduler(bot_token, services): the services whose results are relayed
services == <<s_image_service>>

\* asyncio.run(main()): poll_tasks enters its first sweep
Init ==
    /\ db \in {Seeded(<<>>, seeds) : seeds \in Seeds}
    /\ name = <<>>
    /\ method = None
    /\ args = <<>>
    /\ ret = NoResult
    /\ loop = [pc |-> "for", i |-> 1]
    /\ units = <<>>
    /\ last = Event("", 0, NULL)
    /\ registry = NotImported
    /\ conns = NoConns

\* payload = task.db_fetch(); if payload: asyncio.create_task(process_task(task, payload)).
\* available: whether the store answers. An exception of db_fetch leaves
\* poll_tasks and main, and asyncio.run cancels every task of the loop.
Fetch(available) ==
    LET i == loop.i
        o == db_fetch(i, db)
    IN  /\ loop.pc = "for"
        /\ IF available /\ o.raised = ""
           THEN /\ db' = o.db
                /\ units' = IF o.rows # <<>>
                            THEN Append(units, [task |-> i, payload |-> o.rows, pc |-> "created"])
                            ELSE units
                /\ loop' = IF i < Len(TASKS) THEN [pc |-> "for", i |-> i + 1]
                           ELSE [pc |-> "sleep", i |-> 0]
                /\ last' = Event("fetch", i, NULL)
           ELSE /\ db' = db
                /\ units' = <<>>
                /\ loop' = [pc |-> "raised", i |-> i]
                /\ last' = Event("fetch raised", i, NULL)
        /\ UNCHANGED <<engine, aside>>

\* await asyncio.sleep(config.REQUEST_INTERVAL) returns: the tasks created in
\* the sweep have run up to their first await by then
Wake ==
    /\ loop.pc = "sleep"
    /\ \A u \in DOMAIN units : units[u].pc # "created"
    /\ loop' = [pc |-> "for", i |-> 1]
    /\ last' = Event("tick", 0, NULL)
    /\ UNCHANGED <<db, units, engine, aside>>

\* process_task up to its await: task.set_status(payload, "processing").
\* Tasks start in the order they were created, while poll_tasks sleeps.
UnitStart(u) ==
    LET unit == units[u]
        o == set_status(unit.task, db, unit.payload, "processing")
    IN  /\ loop.pc = "sleep"
        /\ unit.pc = "created"
        /\ \A v \in 1..(u - 1) : units[v].pc # "created"
        /\ db' = o.db
        /\ units' = [units EXCEPT ![u].pc = "process"]
        /\ last' = Event("processing", unit.task, unit.payload[1][s_user_id])
        /\ UNCHANGED <<loop, engine, aside>>

\* process_task from its await to its end:
\*   result = await task.process(payload); task.save_result(payload, result);
\*   task.set_status(payload, "waiting")
\* and, when process or save_result raises, the except branch.
\* saves: whether save_result returns normally.
UnitFinish(u, result, saves) ==
    LET unit == units[u]
        i  == unit.task
        o1 == save_result(i, db, unit.payload, result)
        o2 == set_status(i, o1.db, unit.payload, "waiting")
        failed == result = "raise" \/ ~saves \/ o1.raised # ""
        o3 == except_handler(i, db, unit.payload)
    IN  /\ loop.pc = "sleep"
        /\ unit.pc = "process"
        /\ db' = IF failed THEN o3.db ELSE o2.db
        /\ units' = Remove(units, u)
        /\ last' = Event(IF failed THEN "failed" ELSE "waiting", i,
                         unit.payload[1][s_user_id])
        /\ UNCHANGED <<loop, engine, aside>>

\* handle_service(service, {"user_id": user}): POST /api/{service}/handle
Intake(service, user) ==
    LET table == RequestsTable(service)
        o == execute_insert(db, table, <<s_user_id, s_text, s_status>>,
                            <<user, "", "pending">>)
    IN  /\ RowCount(db, {RequestsTable(x) : x \in ServiceNames}) < MaxIntake
        /\ db' = IF Registered(service) THEN o.db ELSE db
        /\ UNCHANGED <<loop, units, last, engine, aside>>

\* for row in rows: task_id, user_id, status, image_url = row; if status ==
\* "waiting" and image_url: send the message, UPDATE table SET status = "done"
\* WHERE id = task_id. Unpacking the dict row binds the four names to its keys.
RECURSIVE Relay(_, _, _)
Relay(d, table, rows) ==
    IF Len(rows) = 0 THEN d
    ELSE LET keys == <<s_id, s_user_id, s_status, s_image_url>>
             task_id == Str(keys[1])
             status == Str(keys[3])
             image_url == Str(keys[4])
         IN  Relay(IF status = "waiting" /\ image_url # ""
                   THEN Update(d, table, <<s_status>>, <<"done">>, <<s_id>>, <<task_id>>)
                   ELSE d,
                   table, Tail(rows))

\* BotScheduler._check_service(service)
Deliver(service) ==
    LET table == RequestsTable(service)
        o == execute_select(db, table, <<s_id, s_user_id, s_status, s_image_url>>)
    IN  /\ db' = Relay(o.db, table, o.rows)
        /\ UNCHANGED <<loop, units, last, engine, aside>>

Next ==
    \/ \E available \in BOOLEAN : Fetch(available)
    \/ Wake
    \/ \E u \in DOMAIN units : UnitStart(u)
    \/ \E u \in DOMAIN units : \E result \in ProcessOutcomes : \E saves \in BOOLEAN :
          UnitFinish(u, result, saves)
    \/ \E service \in ServiceNames : \E user \in Requesters : Intake(service, user)
    \/ \E k \in DOMAIN services : Deliver(services[k])

Spec == Init /\ [][Next]_vars

\* FairSpec: the store always answers, the event loop keeps running what is ready
NextFair ==
    \/ Fetch(TRUE)
    \/ Wake
    \/ \E u \in DOMAIN units : UnitStart(u)
    \/ \E u \in DOMAIN units : \E result \in ProcessOutcomes : \E saves \in BOOLEAN :
          UnitFinish(u, result, saves)
    \/ \E service \in ServiceNames : \E user \in Requesters : Intake(service, user)
    \/ \E k \in DOMAIN services : Deliver(services[k])

FairSpec ==
    /\ Init
    /\ [][NextFair]_vars
    /\ WF_vars(Fetch(TRUE))
    /\ WF_vars(Wake)
    /\ WF_vars(\E u \in DOMAIN units : UnitStart(u))
    /\ WF_vars(\E u \in DOMAIN units : \E result \in ProcessOutcomes : \E saves \in BOOLEAN :
                  UnitFinish(u, result, saves))

-----------------------------------------------------------------------------
(* Name resolution alone: attribute names looked up on an AutoDB. *)

s_fetch == <<"f","e","t","c","h">>
s_foo == <<"f","o","o">>
s_done == <<"d","o","n","e">>
s_image_requests == <<"i","m","a","g","e","_","r","e","q","u","e","s","t","s">>

ParseOps == {s_get, s_set, s_update, s_delete, s_fetch}

ParseColumns == {<<s_url>>, <<s_user_id>>, <<s_url, s_user_id>>}

ParseStatuses == {s_pending, s_done, s_foo}

ParseTables == {s_images, s_videos, s_image_requests}

\* "_and_".join(columns)
RECURSIVE JoinAnd(_)
JoinAnd(columns) ==
    IF Len(columns) = 1 THEN columns[1]
    ELSE columns[1] \o s_and_ \o JoinAnd(Tail(columns))

\* <op>_<c1>[_and_<c2>...]_with_<status>_<table>
WithStatusName(op, columns, status, table) ==
    op \o <<"_">> \o JoinAnd(columns) \o s_with_ \o status \o <<"_">> \o table

\* db.get_image(123) # image means from table images
n_get_image == Join(<<s_get, s_image>>)

LookupNames ==
    {WithStatusName(op, columns, status, table) :
        op \in ParseOps, columns \in ParseColumns, status \in ParseStatuses,
        table \in ParseTables}
    \cup CallNames \cup OtherNames \cup {s_images, s_set \o <<"_">>, n_get_image}

\* getattr(db, n)
Lookup(n) ==
    /\ name' = n
    /\ method' = __getattr__(n)
    /\ UNCHANGED <<db, args, ret, loop, units, last, aside>>

NextParse == \E n \in LookupNames : Lookup(n)

SpecParse == InitDB /\ [][NextParse]_vars

-----------------------------------------------------------------------------
(* The import of service_definitions/registry.py: the module-level loop    *)
(* over the packages found under services/.                                *)

\* how many packages pkgutil.iter_modules finds under services/
MaxModules == 3

\* the SERVICE objects a package under services/ may expose: a Task class
\* instantiated with a name
ServiceObjects ==
    {Task(task_name, noun) :
        task_name \in {s_image_service, s_video_service}, noun \in {s_image, s_video}}

\* TASKS = {} and the packages found, before the first iteration
InitRegistry ==
    /\ db = <<>>
    /\ name = <<>>
    /\ method = None
    /\ args = <<>>
    /\ ret = NoResult
    /\ loop = [pc |-> "off", i |-> 0]
    /\ units = <<>>
    /\ last = Event("", 0, NULL)
    /\ conns = NoConns
    /\ \E n \in 0..MaxModules : \E found \in Tuples(ServiceObjects, n) :
          registry = [discovered |-> found, i |-> 1, TASKS |-> <<>>]

\* one iteration: service_obj = module.SERVICE; TASKS[service_obj.name] = service_obj
Register ==
    /\ registry.i <= Len(registry.discovered)
    /\ LET service_obj == registry.discovered[registry.i]
       IN  registry' = [registry EXCEPT
                           !.TASKS = (service_obj.name :> service_obj) @@ @,
                           !.i = @ + 1]
    /\ UNCHANGED <<db, engine, scheduler, conns>>

NextRegistry == Register

SpecRegistry == InitRegistry /\ [][NextRegistry]_vars

-----------------------------------------------------------------------------
(* Two AutoDB connections on one database file, each inside one call of    *)
(* _ensure_table_and_columns. Every statement commits by itself (sqlite3    *)
(* opens no transaction for SELECT, PRAGMA or DDL), so the calls interleave *)
(* statement by statement.                                                  *)

\* the intake API's AutoDB and the core's AutoDB
Connections == {1, 2}

\* each connection is about to call _ensure_table_and_columns(images, columns)
\* with a list that names no column twice
InitRace ==
    /\ db = <<>>
    /\ name = <<>>
    /\ method = None
    /\ args = <<>>
    /\ ret = NoResult
    /\ loop = [pc |-> "off", i |-> 0]
    /\ units = <<>>
    /\ last = Event("", 0, NULL)
    /\ registry = NotImported
    /\ conns \in [Connections ->
          {[pc |-> "check", table |-> s_images, columns |-> c, existing |-> {}, j |-> 1] :
              c \in {t \in UNION {Tuples(EnsureColumns, k) : k \in 0..MaxCols} :
                        Cardinality(Range(t)) = Len(t)}}]

\* SELECT name FROM sqlite_master ...; if not self.cursor.fetchone()
CheckTable(c) ==
    /\ conns[c].pc = "check"
    /\ conns' = [conns EXCEPT ![c].pc =
                    IF TableExists(db, conns[c].table) THEN "table_info" ELSE "create"]
    /\ UNCHANGED <<db, engine, scheduler, registry>>

\* self._create_table(table): sqlite refuses to create a table that exists
CreateTable(c) ==
    /\ conns[c].pc = "create"
    /\ IF TableExists(db, conns[c].table)
       THEN /\ conns' = [conns EXCEPT ![c].pc = "raised: table already exists"]
            /\ db' = db
       ELSE /\ conns' = [conns EXCEPT ![c].pc = "table_info"]
            /\ db' = _create_table(db, conns[c].table)
    /\ UNCHANGED <<engine, scheduler, registry>>

\* PRAGMA table_info(table); existing = {row[1] for row in fetchall()}
TableInfo(c) ==
    /\ conns[c].pc = "table_info"
    /\ conns' = [conns EXCEPT
                    ![c].existing = Range(table_info(db, conns[c].table)),
                    ![c].pc = IF Len(conns[c].columns) = 0 THEN "returned" ELSE "for"]
    /\ UNCHANGED <<db, engine, scheduler, registry>>

\* one iteration of for column in columns: if column not in existing:
\* ALTER TABLE ... ADD COLUMN; sqlite refuses a column the table has
ForColumn(c) ==
    LET column == conns[c].columns[conns[c].j]
        next == [conns EXCEPT
                    ![c].j = @ + 1,
                    ![c].pc = IF conns[c].j = Len(conns[c].columns)
                              THEN "returned" ELSE "for"]
    IN  /\ conns[c].pc = "for"
        /\ IF column \in conns[c].existing
           THEN conns' = next /\ db' = db
           ELSE IF column \in Range(table_info(db, conns[c].table))
           THEN conns' = [conns EXCEPT ![c].pc = "raised: duplicate column name"] /\ db' = db
           ELSE conns' = next /\ db' = AddColumn(db, conns[c].table, column)
        /\ UNCHANGED <<engine, scheduler, registry>>

NextRace ==
    \/ \E c \in Connections : CheckTable(c)
    \/ \E c \in Connections : CreateTable(c)
    \/ \E c \in Connections : TableInfo(c)
    \/ \E c \in Connections : ForColumn(c)

SpecRace == InitRace /\ [][NextRace]_vars

-----------------------------------------------------------------------------
(* Properties of the scheduler (Spec, FairSpec) *)

\* the place of a status in pending -> processing -> {waiting, error} -> done
StatusRank(st) ==
    CASE st = "pending"    -> 0
      [] st = "processing" -> 1
      [] st = "waiting"    -> 2
      [] st = "error"      -> 2
      [] st = "done"       -> 3
      [] OTHER             -> 0

\* C1: no step (intake insert, fetch, start, completion or failure of a
\* dispatched unit, delivery check) moves the status of any record backward
\* in the order pending -> processing -> {waiting, error} -> done.
C1_StatusMonotonic ==
    [][\A t \in DOMAIN db : \A k \in DOMAIN db[t].rows :
          s_status \in DOMAIN db[t].rows[k] =>
              StatusRank(db'[t].rows[k][s_status]) >= StatusRank(db[t].rows[k][s_status])]_vars

\* a dispatched unit leaves through its except branch in this step
UnitFailed == Len(units') = Len(units) - 1 /\ last'.step = "failed"

C3_SweepContinues ==
    [][loop.pc = "for" /\ last'.step = "fetch raised" =>
          loop' \in {[pc |-> "for", i |-> loop.i + 1], [pc |-> "sleep", i |-> 0]}]_vars

\* the k-th request accepted for service has the given status
RequestStatus(service, k, st) ==
    /\ TableExists(db, RequestsTable(service))
    /\ k \in DOMAIN db[RequestsTable(service)].rows
    /\ db[RequestsTable(service)].rows[k][s_status] = st

\* C4: every request the intake endpoint inserted as pending for a registered
\* service is eventually picked up by that service's Task and set to
\* processing, as long as poll_tasks keeps sweeping.
C4_PickedUp ==
    \A i \in DOMAIN TASKS : \A k \in 1..MaxIntake :
        RequestStatus(TASKS[i].name, k, "pending")
            ~> RequestStatus(TASKS[i].name, k, "processing")

\* C16: a record handed to a processing unit is not fetched again: no
\* record is in the payloads of two units of the same Task that are in flight.
C16_SingleOwnership ==
    \A u, v \in DOMAIN units :
        u # v /\ units[u].task = units[v].task =>
            Range(units[u].payload) \cap Range(units[v].payload) = {}

\* C17: once a fetch has handed a payload to a processing unit, the record
\* of the payload (the rows of its first row's user) is no longer pending:
\* it was set to processing before the loop went on to the next Task.
C17_ProcessingBeforeNextFetch ==
    \A u \in DOMAIN units :
        LET t == PolledTable(units[u].task)
        IN  \A j \in RowsWith(db, t, s_user_id, units[u].payload[1][s_user_id]) :
                db[t].rows[j][s_status] # "pending"

\* C18: when a unit ends by setting its record to waiting, the record holds
\* the result save_result stored before: its result column is not NULL.
C18_WaitingHasResult ==
    [][last'.step = "waiting" /\ Len(units') = Len(units) - 1 =>
          LET t == PolledTable(last'.task)
              result == Methods[last'.task].save_result.columns[1]
          IN  \A j \in RowsWith(db', t, s_user_id, last'.user) :
                  db'[t].rows[j][s_status] = "waiting" => db'[t].rows[j][result] # NULL]_vars

-----------------------------------------------------------------------------
(* Properties of the query engine (SpecDB) *)

\* this step is the call set_image_by_user_id(v, k), the two-argument setter
\* set_<col>_by_<f> with col = image, f = user_id
SetterCalled == name' = n_set_image_by_user_id /\ last'.step = "call"

RoundTrips ==
    {<<n_set_image_by_user_id, n_get_image_by_user_id>>,
     <<n_set_image_status_by_user_id, n_get_image_status_by_user_id>>}

\* C6: when set_<c>_by_<f>(v, k) has written rows and get_<c>_by_<f>(k) is
\* called next, the getter returns records, each carrying v (in the TEXT form
\* the store keeps it in); also for c = image_status.
C6_RoundTrip ==
    [][\A pair \in RoundTrips :
          (/\ name = pair[1] /\ last.step = "call" /\ ret.raised = "" /\ ret.rows # <<>>
           /\ name' = pair[2] /\ last'.step = "call" /\ args' = <<args[2]>>)
          => /\ ret'.rows # <<>>
             /\ \A j \in DOMAIN ret'.rows : \E c \in DOMAIN ret'.rows[j] :
                   ret'.rows[j][c] = TextAffinity(args[1])]_vars

\* C7: a second _ensure_table_and_columns(table, columns) made right after a
\* first one that returned normally executes no CREATE TABLE and no ADD
\* COLUMN, does not raise, and leaves the store as it was.
C7_EnsureIdempotent ==
    [][last'.step = "ensure again" =>
          /\ ret'.raised = ""
          /\ ret'.ddl = 0
          /\ db' = db]_vars

\* a repeated provisioning call for two columns that has changed nothing
C7_Witness ==
    /\ last.step = "ensure again"
    /\ ret.ddl = 0
    /\ method.ensure = <<s_image, s_status>>
    /\ {s_image, s_status} \subseteq Range(db[method.table].cols)

\* C8: no provisioning, made directly or by a generated method, fails with a
\* duplicate-column error.
C8_NoDuplicateColumn == ret.raised # "OperationalError: duplicate column name"

-----------------------------------------------------------------------------
(* Properties of name resolution (SpecParse) *)

\* C9: a name <op>_<c1>[_and_<c2>...]_with_<status>_<table> with op get or set
\* and an allow-listed status resolves to the with-status query: status
\* literal <status>, columns the _and_-split list in order, table <table>;
\* also when <table> contains an underscore.
C9_WithStatusResolved ==
    \A op \in {s_get, s_set} : \A columns \in ParseColumns :
    \A status \in ParseStatuses \cap STATUS_KEYWORDS : \A table \in ParseTables :
        name = WithStatusName(op, columns, status, table) =>
            /\ method.kind \in {"get_with_status", "set_with_status"}
            /\ method.status = status
            /\ method.columns = columns
            /\ method.table = table

\* C10: a name get_/set_<col>_with_<x>_<table> whose x is not an allow-listed
\* status resolves to no callable query: the lookup raises AttributeError.
C10_UnknownStatusRejected ==
    \A op \in {s_get, s_set} : \A columns \in ParseColumns :
    \A status \in ParseStatuses \ STATUS_KEYWORDS : \A table \in ParseTables :
        name = WithStatusName(op, columns, status, table) => method = AttributeError

\* C11: whenever a name resolves to a query, the table the query provisions
\* and reads or writes ends in "s" (get_image targets table images).
C11_TablePluralised ==
    method.kind \notin {"None", "AttributeError"} => endswith(method.table, s_s)

\* C12: calling delete_<table>() returns normally and leaves the table
\* without a row.
C12_DeleteRemovesAll ==
    [][name' = n_delete_images /\ last'.step = "call" =>
          /\ ret'.raised = ""
          /\ TableExists(db', s_images) => db'[s_images].rows = <<>>]_vars

\* C13: a setter that returns normally returns exactly the rows its UPDATE
\* affected (the rows its filter matched before the write), each with its
\* values after the write; checked for set_image_by_user_id and for
\* set_status_with_pending_images, whose target column is its filter column.
C13_SetterReturnsAffected ==
    [][/\ last'.step = "call"
       /\ ret'.raised = ""
       /\ name' \in {n_set_image_by_user_id, n_set_status_with_pending_images}
       => LET affected ==
                  IF name' = n_set_image_by_user_id
                  THEN RowsWith(db, s_images, s_user_id, args'[2])
                  ELSE RowsWith(db, s_images, s_status, Str(s_pending))
          IN  ret'.rows = Pick(db'[s_images].rows, affected, 1)]_vars

\* C15: a call of execute with a SELECT always reaches the step that runs
\* the caller's statement: scanning its select items never aborts the call.
C15_ExecuteFailsOpen == last.step # "select aborted"

-----------------------------------------------------------------------------
(* Properties of the registry (SpecRegistry) *)

\* C14: the import of the registry does not complete when two of the
\* packages found expose a SERVICE of the same name: once the loop is over,
\* TASKS holds one entry for each package found.
C14_DuplicateNameFatal ==
    registry.i > Len(registry.discovered) =>
        Cardinality(DOMAIN registry.TASKS) = Len(registry.discovered)

-----------------------------------------------------------------------------
(* Properties of provisioning by two connections (SpecRace) *)

\* C19: whichever way the statements of the two calls interleave, neither
\* call raises: a connection that finds the table or the column created by
\* the other in the meantime goes on as if it had created it.
C19_RaceTolerated ==
    \A c \in DOMAIN conns :
        conns[c].pc \notin {"raised: table already exists", "raised: duplicate column name"}
====
